---- MODULE Spec2Model ----
(***************************************************************************)
(* Model of main.go: a load generator that issues numQueries point lookups *)
(* against a Cassandra session, at most `concurrency` at a time.  The main *)
(* goroutine validates its configuration, then runs a dispatch loop that   *)
(* does wg.Add(1), acquires a slot of a buffered channel used as a         *)
(* semaphore and starts one goroutine per query index.  Every goroutine    *)
(* runs one lookup, bumps the shared counter successfulQueries when a row  *)
(* was scanned, logs a failure when iter.Close reports one, releases its   *)
(* slot and calls wg.Done.  main joins on wg.Wait and prints the summary.  *)
(***************************************************************************)
EXTENDS Integers, Sequences, FiniteSets

\* ------------------------------------------------------------------ bounds
MaxConcurrency == 2
MaxQueries == 3
MaxKeys == 2

\* ------------------------------------------------------------------ state
VARIABLES
    nArgs,              \* len(os.Args)
    argConcurrency,     \* value of os.Args[1]
    argNumQueries,      \* value of os.Args[2]
    fileOk,             \* the keys file can be read and unmarshalled
    fileKeys,           \* the keys stored in the keys file
    connectOk,          \* cluster.CreateSession succeeds
    store,              \* outcome of the lookup of each query index
    pc,                 \* position of the main goroutine
    concurrency,        \* main's local concurrency
    numQueries,         \* main's local numQueries
    allKeys,            \* main's local allKeys
    i,                  \* loop variable of the dispatch loop
    wg,                 \* counter of the sync.WaitGroup
    semaphore,          \* number of tokens buffered in the channel
    successfulQueries,  \* the shared success counter
    gpc,                \* position of the goroutine of each query index
    key,                \* local `key` of each goroutine (0 = not yet set)
    reg,                \* value of the counter loaded by successfulQueries++
    lookups,            \* number of lookups performed for each query index
    logged,             \* query indices for which "Query %d failed" was logged
    launched,           \* number of goroutines started so far
    printed,            \* the success total printed by main (-1 = nothing yet)
    counted,            \* query indices whose goroutine stored its increment
    startTime,          \* TRUE once startTime := time.Now() was taken
    totalTime           \* TRUE once totalTime := time.Since(startTime) was taken

vars == <<nArgs, argConcurrency, argNumQueries, fileOk, fileKeys, connectOk,
          store, pc, concurrency, numQueries, allKeys, i, wg, semaphore,
          successfulQueries, gpc, key, reg, lookups, logged, launched,
          printed, counted, startTime, totalTime>>

inputs == <<nArgs, argConcurrency, argNumQueries, fileOk, fileKeys, connectOk,
            store>>

workers == <<gpc, key, reg, lookups, logged, counted>>

timing == <<startTime, totalTime>>

\* ------------------------------------------------------------ helpers
Outcomes == {"found", "notfound", "failed"}

QueryIDs == 0 .. (MaxQueries - 1)

Min(a, b) == IF a < b THEN a ELSE b

\* iter.Scan(&dummy) of the lookup of query index q: TRUE iff a row was read
Scan(q) == store[q] = "found"

\* iter.Close() of the lookup of query index q: TRUE iff it returns an error
CloseErr(q) == store[q] = "failed"

CountsSuccessNoErr(q) == ~CloseErr(q)

\* if iter.Scan(&dummy) { successfulQueries++ }: the increment is taken
CountsSuccess(q) == Scan(q)

LogsFailureAlways(q) == TRUE

\* if err := iter.Close(); err != nil { log.Printf(...) }: the log is written
LogsFailure(q) == CloseErr(q)

\* len(os.Args) < 4 is rejected
ArgsOk(n) == ~(n < 4)

\* concurrency <= 0 is rejected
ConcurrencyOk(c) == ~(c <= 0)

NumQueriesOkLax(n) == ~(n < 0)

\* numQueries <= 0 is rejected
NumQueriesOk(n) == ~(n <= 0)

\* len(allKeys) == 0 is rejected
KeysOk(ks) == ~(Len(ks) = 0)

SemCapOffByOne == concurrency + 1

SemCapNoLimit == numQueries

\* capacity of make(chan struct{}, concurrency)
SemCap == concurrency

SemReleaseLeak(s) == s

\* <-semaphore takes one token out of the channel
SemRelease(s) == s - 1

NextIndexSkip(n) == n + 2

\* i++ of the dispatch loop
NextIndex(n) == n + 1

LoopCondPool(n) == n < Min(concurrency, numQueries)

\* i < numQueries, the condition of the dispatch loop
LoopCond(n) == n < numQueries

SemSendNone(s) == s

\* semaphore <- struct{}{} puts one token into the channel
SemSend(s) == s + 1

WgAddNone(w) == w

\* wg.Add(1)
WgAdd(w) == w + 1

WgDoneTwice(w) == w - 2

\* wg.Done()
WgDone(w) == w - 1

WaitReadyEarly(w) == w <= 1

\* wg.Wait returns when the counter is zero
WaitReady(w) == w = 0

KeyForNoWrap(q) == allKeys[Min(q, Len(allKeys) - 1) + 1]

\* allKeys[queryID%len(allKeys)] (Go slices are 0-based, sequences 1-based)
KeyFor(q) == allKeys[(q % Len(allKeys)) + 1]

\* ------------------------------------------------------------------ Init
Init ==
    /\ nArgs \in {3, 4}
    /\ argConcurrency \in -1 .. MaxConcurrency
    /\ argNumQueries \in -1 .. MaxQueries
    /\ fileOk \in BOOLEAN
    /\ \E n \in 0 .. MaxKeys : fileKeys = [j \in 1 .. n |-> j]
    /\ connectOk \in BOOLEAN
    /\ store \in [0 .. (argNumQueries - 1) -> Outcomes]
    /\ pc = "args"
    /\ concurrency = 0
    /\ numQueries = 0
    /\ allKeys = <<>>
    /\ i = 0
    /\ wg = 0
    /\ semaphore = 0
    /\ successfulQueries = 0
    /\ gpc = [q \in QueryIDs |-> "none"]
    /\ key = [q \in QueryIDs |-> 0]
    /\ reg = [q \in QueryIDs |-> 0]
    /\ lookups = [q \in QueryIDs |-> 0]
    /\ logged = {}
    /\ launched = 0
    /\ printed = -1
    /\ counted = {}
    /\ startTime = FALSE
    /\ totalTime = FALSE

\* ------------------------------------------------------- main: set-up
\* if len(os.Args) < 4 { log.Fatalf(...) }
CheckArgs ==
    /\ pc = "args"
    /\ pc' = IF ArgsOk(nArgs) THEN "conc" ELSE "fatal"
    /\ UNCHANGED <<inputs, timing, concurrency, numQueries, allKeys, i, wg, semaphore,
                   successfulQueries, workers, launched, printed>>

\* concurrency, err := strconv.Atoi(os.Args[1]); rejected unless positive
ParseConcurrency ==
    /\ pc = "conc"
    /\ concurrency' = argConcurrency
    /\ pc' = IF ConcurrencyOk(argConcurrency) THEN "num" ELSE "fatal"
    /\ UNCHANGED <<inputs, timing, numQueries, allKeys, i, wg, semaphore,
                   successfulQueries, workers, launched, printed>>

\* numQueries, err := strconv.Atoi(os.Args[2]); rejected unless positive
ParseNumQueries ==
    /\ pc = "num"
    /\ numQueries' = argNumQueries
    /\ pc' = IF NumQueriesOk(argNumQueries) THEN "read" ELSE "fatal"
    /\ UNCHANGED <<inputs, timing, concurrency, allKeys, i, wg, semaphore,
                   successfulQueries, workers, launched, printed>>

\* os.ReadFile and json.Unmarshal into allKeys; either failure is fatal
ReadKeys ==
    /\ pc = "read"
    /\ IF fileOk
         THEN allKeys' = fileKeys /\ pc' = "keys"
         ELSE allKeys' = allKeys /\ pc' = "fatal"
    /\ UNCHANGED <<inputs, timing, concurrency, numQueries, i, wg, semaphore,
                   successfulQueries, workers, launched, printed>>

\* if len(allKeys) == 0 { log.Fatalf(...) }
CheckKeys ==
    /\ pc = "keys"
    /\ pc' = IF KeysOk(allKeys) THEN "connect" ELSE "fatal"
    /\ UNCHANGED <<inputs, timing, concurrency, numQueries, allKeys, i, wg, semaphore,
                   successfulQueries, workers, launched, printed>>

\* session, err := cluster.CreateSession(); then wg, successfulQueries,
\* startTime and the semaphore channel are created and the loop starts at 0
Connect ==
    /\ pc = "connect"
    /\ IF connectOk
         THEN /\ pc' = "loop"
              /\ i' = 0
              /\ wg' = 0
              /\ semaphore' = 0
              /\ successfulQueries' = 0
              /\ startTime' = TRUE
         ELSE /\ pc' = "fatal"
              /\ UNCHANGED <<i, wg, semaphore, successfulQueries, startTime>>
    /\ UNCHANGED <<inputs, totalTime, concurrency, numQueries, allKeys,
                   workers, launched, printed>>

\* ------------------------------------------------- main: dispatch loop
\* i < numQueries holds: wg.Add(1)
Add ==
    /\ pc = "loop"
    /\ LoopCond(i)
    /\ wg' = WgAdd(wg)
    /\ pc' = "acquire"
    /\ UNCHANGED <<inputs, timing, concurrency, numQueries, allKeys, i, semaphore,
                   successfulQueries, workers, launched, printed>>

\* semaphore <- struct{}{} : blocks while the buffer is full
Acquire ==
    /\ pc = "acquire"
    /\ semaphore < SemCap
    /\ semaphore' = SemSend(semaphore)
    /\ pc' = "spawn"
    /\ UNCHANGED <<inputs, timing, concurrency, numQueries, allKeys, i, wg,
                   successfulQueries, workers, launched, printed>>

\* go func(queryID int) {...}(i); then i++
Spawn ==
    /\ pc = "spawn"
    /\ gpc' = [gpc EXCEPT ![i] = "start"]
    /\ launched' = launched + 1
    /\ i' = NextIndex(i)
    /\ pc' = "loop"
    /\ UNCHANGED <<inputs, timing, concurrency, numQueries, allKeys, wg, semaphore,
                   successfulQueries, key, reg, lookups, logged, counted,
                   printed>>

\* i < numQueries fails: the loop is left for wg.Wait()
LoopExit ==
    /\ pc = "loop"
    /\ ~LoopCond(i)
    /\ pc' = "wait"
    /\ UNCHANGED <<inputs, timing, concurrency, numQueries, allKeys, i, wg, semaphore,
                   successfulQueries, workers, launched, printed>>

\* wg.Wait() returns; totalTime := time.Since(startTime)
Wait ==
    /\ pc = "wait"
    /\ WaitReady(wg)
    /\ totalTime' = TRUE
    /\ pc' = "print"
    /\ UNCHANGED <<inputs, startTime, concurrency, numQueries, allKeys, i, wg, semaphore,
                   successfulQueries, workers, launched, printed>>

\* the summary is printed: main reads successfulQueries
PrintSummary ==
    /\ pc = "print"
    /\ printed' = successfulQueries
    /\ pc' = "done"
    /\ UNCHANGED <<inputs, timing, concurrency, numQueries, allKeys, i, wg, semaphore,
                   successfulQueries, workers, launched>>

Main ==
    \/ CheckArgs \/ ParseConcurrency \/ ParseNumQueries \/ ReadKeys
    \/ CheckKeys \/ Connect
    \/ Add \/ Acquire \/ Spawn \/ LoopExit \/ Wait \/ PrintSummary

\* ------------------------------------------------------ the goroutines
\* key := allKeys[queryID%len(allKeys)]; session.Query(...).Iter() is called
GoQuery(q) ==
    /\ gpc[q] = "start"
    /\ key' = [key EXCEPT ![q] = KeyFor(q)]
    /\ lookups' = [lookups EXCEPT ![q] = @ + 1]
    /\ gpc' = [gpc EXCEPT ![q] = "inflight"]
    /\ UNCHANGED <<inputs, timing, counted, pc, concurrency, numQueries, allKeys, i, wg,
                   semaphore, successfulQueries, reg, logged, launched,
                   printed>>

\* Iter() returns; if iter.Scan(&dummy) { ... }
GoScan(q) ==
    /\ gpc[q] = "inflight"
    /\ gpc' = [gpc EXCEPT ![q] = IF CountsSuccess(q) THEN "load" ELSE "close"]
    /\ UNCHANGED <<inputs, timing, counted, pc, concurrency, numQueries, allKeys, i, wg,
                   semaphore, successfulQueries, key, reg, lookups, logged,
                   launched, printed>>

\* successfulQueries++ : the load of the plain int64
GoLoad(q) ==
    /\ gpc[q] = "load"
    /\ reg' = [reg EXCEPT ![q] = successfulQueries]
    /\ gpc' = [gpc EXCEPT ![q] = "store"]
    /\ UNCHANGED <<inputs, timing, counted, pc, concurrency, numQueries, allKeys, i, wg,
                   semaphore, successfulQueries, key, lookups, logged,
                   launched, printed>>

\* successfulQueries++ : the store of the loaded value plus one
GoStore(q) ==
    /\ gpc[q] = "store"
    /\ successfulQueries' = reg[q] + 1
    /\ counted' = counted \cup {q}
    /\ gpc' = [gpc EXCEPT ![q] = "close"]
    /\ UNCHANGED <<inputs, timing, pc, concurrency, numQueries, allKeys, i, wg,
                   semaphore, key, reg, lookups, logged, launched, printed>>

\* if err := iter.Close(); err != nil { log.Printf("Query %d failed") }
GoClose(q) ==
    /\ gpc[q] = "close"
    /\ logged' = IF LogsFailure(q) THEN logged \cup {q} ELSE logged
    /\ gpc' = [gpc EXCEPT ![q] = "release"]
    /\ UNCHANGED <<inputs, timing, counted, pc, concurrency, numQueries, allKeys, i, wg,
                   semaphore, successfulQueries, key, reg, lookups, launched,
                   printed>>

\* defer func() { <-semaphore }()
GoRelease(q) ==
    /\ gpc[q] = "release"
    /\ semaphore > 0
    /\ semaphore' = SemRelease(semaphore)
    /\ gpc' = [gpc EXCEPT ![q] = "wgdone"]
    /\ UNCHANGED <<inputs, timing, counted, pc, concurrency, numQueries, allKeys, i, wg,
                   successfulQueries, key, reg, lookups, logged, launched,
                   printed>>

\* defer wg.Done(); the goroutine ends
GoDone(q) ==
    /\ gpc[q] = "wgdone"
    /\ wg' = WgDone(wg)
    /\ gpc' = [gpc EXCEPT ![q] = "exited"]
    /\ UNCHANGED <<inputs, timing, counted, pc, concurrency, numQueries, allKeys, i,
                   semaphore, successfulQueries, key, reg, lookups, logged,
                   launched, printed>>

Goroutine(q) ==
    \/ GoQuery(q) \/ GoScan(q) \/ GoLoad(q) \/ GoStore(q)
    \/ GoClose(q) \/ GoRelease(q) \/ GoDone(q)

Next == Main \/ \E q \in QueryIDs : Goroutine(q)

Spec == Init /\ [][Next]_vars

\* Stores whose outcome is a fixed pattern of the query index: every lookup
\* finds a row, only even indices do, every third call fails, none finds a
\* row, every call fails.
MockStores(n) ==
    { [q \in 0 .. (n - 1) |-> "found"],
      [q \in 0 .. (n - 1) |-> IF q % 2 = 0 THEN "found" ELSE "notfound"],
      [q \in 0 .. (n - 1) |-> IF q % 3 = 2 THEN "failed" ELSE "found"],
      [q \in 0 .. (n - 1) |-> "notfound"],
      [q \in 0 .. (n - 1) |-> "failed"] }

\* the initial states of the runs against one of the pattern stores
FairInit == Init /\ store \in MockStores(argNumQueries)

\* The Go scheduler is preemptive and every lookup returns: each goroutine
\* that can take a step eventually takes one.
FairSpec ==
    /\ FairInit
    /\ [][Next]_vars
    /\ WF_vars(Main)
    /\ \A q \in QueryIDs : WF_vars(Goroutine(q))

\* ------------------------------------------------------------ type check
TypeOK ==
    /\ pc \in {"args", "conc", "num", "read", "keys", "connect", "loop",
               "acquire", "spawn", "wait", "print", "done", "fatal"}
    /\ gpc \in [QueryIDs -> {"none", "start", "inflight", "load", "store",
                             "close", "release", "wgdone", "exited"}]
    /\ i \in 0 .. MaxQueries
    /\ wg \in 0 .. MaxQueries
    /\ semaphore \in 0 .. MaxConcurrency
    /\ successfulQueries \in 0 .. MaxQueries

\* ------------------------------------------------------------ properties
\* the query indices of the run
Indices == 0 .. (numQueries - 1)

\* the run has been launched: main is in or past the dispatch loop
Running == pc \in {"loop", "acquire", "spawn", "wait", "print", "done"}

\* wg.Wait has returned
Joined == pc \in {"print", "done"}

\* lookups that have been started and have not yet returned
InFlight == Cardinality({q \in QueryIDs : gpc[q] = "inflight"})

\* goroutines between the load and the store of successfulQueries++
Incrementing == {q \in QueryIDs : gpc[q] = "store"}

\* number of indices of the run whose lookup finds a row
FoundCount == Cardinality({q \in 0 .. (argNumQueries - 1) : Scan(q)})

\* indices of the run whose lookup fails
FailedSet == {q \in 0 .. (argNumQueries - 1) : CloseErr(q)}

RECURSIVE SerialCount(_)
\* the total a strictly sequential run (concurrency 1) of n queries counts
SerialCount(n) ==
    IF n <= 0 THEN 0
    ELSE SerialCount(n - 1) + (IF Scan(n - 1) THEN 1 ELSE 0)

\* the configuration is one that must be rejected
InvalidConfig ==
    \/ argNumQueries <= 0
    \/ argConcurrency <= 0
    \/ Len(fileKeys) = 0

\* the configuration is accepted and the session is established
ValidConfig ==
    /\ nArgs >= 4
    /\ argConcurrency > 0
    /\ argNumQueries > 0
    /\ fileOk
    /\ Len(fileKeys) > 0
    /\ connectOk

\* C1: no index is ever looked up twice, no lookup is made for an index
\* outside 0..R-1, and when the run has finished every index of 0..R-1 has
\* been looked up exactly once.
C1_ExactlyOnce ==
    /\ \A q \in QueryIDs : lookups[q] <= 1
    /\ \A q \in QueryIDs : (lookups[q] > 0 => (Running /\ q \in Indices))
    /\ Joined => \A q \in Indices : lookups[q] = 1

C1_Witness ==
    /\ pc = "done"
    /\ numQueries >= 2
    /\ concurrency >= 2
    /\ \A q \in Indices : lookups[q] = 1

\* C2: the number of lookups started and not yet returned never exceeds
\* min(C, R).
C2_BoundedInFlight ==
    Running => InFlight <= Min(concurrency, numQueries)

C2_Witness ==
    /\ numQueries > concurrency
    /\ concurrency >= 2
    /\ InFlight = concurrency
    /\ pc = "acquire"

\* C3: after the join the success counter equals the number of indices whose
\* lookup found a row (no increment is lost).
C3_NoLostIncrement ==
    Joined => successfulQueries = FoundCount

\* C4: no two goroutines are at the same time between the read of the
\* counter and the write of the incremented value.
C4_ExclusiveIncrement ==
    Cardinality(Incrementing) <= 1

\* C5: during a run the counter is at most R and no step makes it smaller.
C5_BoundedMonotone ==
    [][Running => (/\ successfulQueries' <= numQueries'
                   /\ successfulQueries' >= successfulQueries)]_vars

\* C6: once wg.Wait has returned every goroutine of the run has finished:
\* none is in a lookup or an increment and none is left alive.
C6_FullJoin ==
    Joined => /\ \A q \in Indices : gpc[q] = "exited"
              /\ \A q \in QueryIDs \ Indices : gpc[q] = "none"
              /\ launched = numQueries

C6_Witness ==
    /\ pc = "print"
    /\ launched >= 2
    /\ \A q \in Indices : gpc[q] = "exited"

\* C7: with an accepted configuration, lookups that return and fair
\* scheduling, the run eventually completes (the summary is printed).
C7_Completes ==
    ValidConfig ~> (pc = "done")

C7_Witness ==
    /\ pc = "done"
    /\ ValidConfig
    /\ numQueries > concurrency
    /\ printed >= 0

\* C8: a failed lookup is logged, never increments the counter, is looked up
\* only once and does not stop the run; when every lookup either fails or
\* finds a row, the final counter is R minus the number of failed lookups.
C8_FailureAbsorbed ==
    /\ \A q \in QueryIDs : gpc[q] \in {"load", "store"} => ~CloseErr(q)
    /\ \A q \in QueryIDs : lookups[q] <= 1
    /\ Joined => /\ logged = FailedSet
                 /\ \A q \in Indices : lookups[q] = 1
    /\ (Joined /\ \A q \in Indices : store[q] # "notfound")
          => successfulQueries = numQueries - Cardinality(FailedSet)

\* C9: a configuration with R <= 0, C <= 0 or no keys is rejected during
\* set-up: main never gets past the checks, no goroutine is launched, no
\* lookup is made and the counter is never touched.
C9_RejectsInvalid ==
    InvalidConfig =>
        /\ pc \in {"args", "conc", "num", "read", "keys", "fatal"}
        /\ launched = 0
        /\ \A q \in QueryIDs : gpc[q] = "none" /\ lookups[q] = 0
        /\ successfulQueries = 0
        /\ wg = 0 /\ semaphore = 0

C9_Witness ==
    /\ pc = "fatal"
    /\ InvalidConfig
    /\ ArgsOk(nArgs)
    /\ launched = 0

\* C10: the final total does not depend on the concurrency level: whatever C
\* is, it is the total that the sequential run (C = 1) of the same R against
\* the same store produces.
C10_ConcurrencyIndependent ==
    pc = "done" => printed = SerialCount(numQueries)

\* with concurrency 1 the run does produce the sequential total
SerialRunCounts ==
    (pc = "done" /\ concurrency = 1) => printed = SerialCount(numQueries)

\* C11: the key a goroutine uses for index q is the key at position
\* q mod len of the loaded key sequence, whatever the interleaving and the
\* concurrency level, and the loaded sequence stays what the file held.
C11_KeyMapping ==
    /\ \A q \in QueryIDs :
          gpc[q] \notin {"none", "start"}
             => key[q] = fileKeys[(q % Len(fileKeys)) + 1]
    /\ (Running \/ pc \in {"keys", "connect"}) => allKeys = fileKeys

C11_Witness ==
    \E q \in QueryIDs :
        /\ Len(allKeys) >= 2
        /\ q >= Len(allKeys)
        /\ concurrency >= 2
        /\ gpc[q] = "exited"
        /\ key[q] = allKeys[1]

\* goroutines that are past iter.Close: their index has been serviced
Serviced == {q \in QueryIDs : gpc[q] \in {"release", "wgdone", "exited"}}

\* C12: every serviced index has exactly one of three outcomes: a row was
\* found (increment taken, nothing logged), no row (no increment, no log),
\* or the lookup failed (logged, no increment); no index is both counted and
\* logged.
C12_OneOutcome ==
    /\ counted \cap logged = {}
    /\ \A q \in Serviced :
          \/ store[q] = "found" /\ q \in counted /\ q \notin logged
          \/ store[q] = "notfound" /\ q \notin counted /\ q \notin logged
          \/ store[q] = "failed" /\ q \notin counted /\ q \in logged

C12_Witness ==
    /\ pc = "done"
    /\ counted # {}
    /\ logged # {}
    /\ Serviced \ (counted \cup logged) # {}

\* C13: a step of the goroutine of an index whose lookup returns no row and
\* no error never changes the success counter and never logs; the only
\* shared state such a goroutine changes is the semaphore (one token taken
\* out by its deferred release) and the WaitGroup (its Done).
C13_NotFoundFrame ==
    [][\A q \in QueryIDs :
          (q \in DOMAIN store /\ store[q] = "notfound" /\ gpc'[q] # gpc[q])
             => /\ successfulQueries' = successfulQueries
                /\ logged' = logged
                /\ counted' = counted
                /\ reg' = reg
                /\ semaphore' # semaphore
                      => (gpc[q] = "release" /\ semaphore' = semaphore - 1)
                /\ wg' # wg => (gpc[q] = "wgdone" /\ wg' = wg - 1)]_vars

C13_Witness ==
    \E q \in QueryIDs :
        /\ q \in DOMAIN store
        /\ store[q] = "notfound"
        /\ gpc[q] = "exited"
        /\ q \notin logged
        /\ q \notin counted
        /\ successfulQueries >= 1

\* goroutines that hold a slot of the semaphore
SlotHolders ==
    {q \in QueryIDs :
        gpc[q] \in {"start", "inflight", "load", "store", "close", "release"}}

C15_TimedWindow ==
    [][/\ launched' > launched => (startTime /\ ~totalTime)
       /\ \A q \in QueryIDs :
             (gpc[q] # "inflight" /\ gpc'[q] = "inflight")
                => (startTime /\ ~totalTime /\ ~totalTime')
       /\ \A q \in QueryIDs :
             (gpc[q] = "inflight" /\ gpc'[q] # "inflight")
                => (startTime /\ ~totalTime /\ ~totalTime')
       /\ (totalTime' /\ ~totalTime)
             => /\ startTime
                /\ launched = numQueries
                /\ \A q \in Indices : gpc[q] = "exited"
       /\ (startTime' /\ ~startTime)
             => (launched = 0 /\ \A q \in QueryIDs : gpc[q] = "none")]_vars

C15_Witness ==
    /\ pc = "print"
    /\ startTime
    /\ totalTime
    /\ launched >= 2
    /\ \A q \in Indices : lookups[q] = 1

\* C16: the number of tokens in the semaphore channel is the number of
\* goroutines for which main has acquired a slot and whose deferred release
\* has not run yet (the one main is about to start included); it lies in
\* 0..C; main blocks on the send exactly when C tokens are held; after the
\* join the channel is empty.
C16_SemaphoreTokens ==
    Running =>
        /\ semaphore = Cardinality(SlotHolders)
                          + (IF pc = "spawn" THEN 1 ELSE 0)
        /\ semaphore >= 0
        /\ semaphore <= concurrency
        /\ pc = "acquire" => ((~ENABLED Acquire) <=> (semaphore = concurrency))
        /\ Joined => semaphore = 0

C16_Witness ==
    /\ pc = "acquire"
    /\ concurrency >= 2
    /\ semaphore = concurrency
    /\ ~ENABLED Acquire
    /\ Cardinality(SlotHolders) = concurrency

\* number of wg.Add(1) calls main has executed
Dispatched == i + (IF pc \in {"acquire", "spawn"} THEN 1 ELSE 0)

\* number of goroutines that have called wg.Done
DoneCount == Cardinality({q \in QueryIDs : gpc[q] = "exited"})

\* C17: wg.Add(1) of an index precedes the start of its goroutine, the
\* WaitGroup counter is the number of indices dispatched minus the number of
\* goroutines that called Done and is never negative, wg.Wait is reached
\* only after all R Adds and cannot return while a goroutine has not called
\* Done.
C17_WaitGroupCounter ==
    Running =>
        /\ wg = Dispatched - DoneCount
        /\ wg >= 0
        /\ \A q \in QueryIDs : gpc[q] # "none" => q < Dispatched
        /\ pc \in {"wait", "print", "done"} => Dispatched = numQueries
        /\ (pc = "wait" /\ ENABLED Wait)
              => \A q \in Indices : gpc[q] = "exited"
        /\ Joined => (wg = 0 /\ DoneCount = numQueries)

C17_Witness ==
    /\ pc = "wait"
    /\ wg >= 2
    /\ ~ENABLED Wait
    /\ DoneCount >= 1

\* goroutines of indices below q that have released their semaphore slot
ReleasedBelow(q) ==
    {p \in QueryIDs : p < q /\ gpc[p] \in {"wgdone", "exited"}}

\* C18: goroutines are started one at a time in the order 0, 1, ..., R-1,
\* and the goroutine of an index q >= C is started only when at least
\* q - C + 1 goroutines of smaller indices have finished their lookup and
\* released their slot.
C18_DispatchOrder ==
    [][\A q \in QueryIDs :
          (gpc[q] = "none" /\ gpc'[q] # "none")
             => /\ q = launched
                /\ launched' = launched + 1
                /\ q \in Indices
                /\ \A p \in QueryIDs : p < q => gpc[p] # "none"
                /\ \A p \in QueryIDs : p > q => gpc'[p] = "none"
                /\ q >= concurrency
                      => Cardinality(ReleasedBelow(q)) >= q - concurrency + 1]_vars

\* an index >= C has been started and the lookups completed out of order
C18_Witness ==
    /\ numQueries > concurrency
    /\ launched > concurrency
    /\ gpc[0] = "inflight"
    /\ gpc[1] = "exited"
====
